---- MODULE Spec2Model ----
(***************************************************************************)
(* Model of src/src/utils.py: the GPS <-> local-frame conversions, the KML *)
(* coordinate formatter and the KML export.                                *)
(*                                                                         *)
(* Numbers.  numpy float64 values are modelled in decimal fixed point with *)
(* six fractional digits (Q = 10^6):                                       *)
(*   angles in radians   -> integers in microradians,                      *)
(*   angles in degrees   -> integers in microdegrees,                      *)
(*   sines, cosines and ratios -> integers in millionths,                  *)
(*   lengths in metres   -> integers in decimetres.                        *)
(* A float that may be NaN is a record [nan, v].  TLC integers are 32 bit, *)
(* so products and quotients are computed by limbs (MulQ, DivQ).           *)
(***************************************************************************)
EXTENDS Integers, Sequences, FiniteSets, TLC

VARIABLES
    template,   \* the file template.kml
    output,     \* the file output.kml
    x1, y1,     \* the caller's estimated path (North, East), in decimetres
    x2, y2,     \* the caller's ground-truth path
    last,       \* the last export_to_kml call: its arguments and how it ended
    calls,      \* the number of export_to_kml calls so far
    arg, ret    \* the arguments and the result of a call of one of the helpers

vars == <<template, output, x1, y1, x2, y2, last, calls, arg, ret>>

(***************************************************************************)
(* Fixed-point arithmetic.  The kernels are functions, not operators: a    *)
(* function is applied to the value of its argument, so an argument is     *)
(* computed once however often the body reads it.                          *)
(***************************************************************************)
Q == 1000000
Limb == 1000

Abs(a) == IF a < 0 THEN -a ELSE a
Sgn(a) == IF a < 0 THEN -1 ELSE 1

\* |a| * |b| / Q for magnitudes, by limbs of 1000, truncated
MulMag[a \in Nat, b \in Nat] ==
    LET a1 == a \div Limb
        a0 == a % Limb
        b1 == b \div Limb
        b0 == b % Limb
    IN  a1 * b1 + ((a1 * b0 + a0 * b1) + ((a0 * b0) \div Limb)) \div Limb

\* the float product a * b of two fixed-point values, one of them in millionths
MulQ[a \in Int, b \in Int] == Sgn(a) * Sgn(b) * MulMag[Abs(a), Abs(b)]

\* one step of long division on p = <<quotient, remainder>>: one more digit
DivStep[p \in Nat \X Nat, d \in Nat] ==
    <<p[1] * 10 + ((p[2] * 10) \div d), (p[2] * 10) % d>>

\* k more decimal digits of the quotient p[1], by long division
DivDigits[k \in Nat, p \in Nat \X Nat, d \in Nat] ==
    IF k = 0 THEN p ELSE DivDigits[k - 1, DivStep[p, d], d]

\* n / d as <<quotient in millionths, remainder>>
LongDiv[n \in Nat, d \in Nat] == DivDigits[6, <<n \div d, n % d>>, d]

\* a quotient rounded away from zero, so that a ratio beyond 1 stays beyond 1
\* (as it does in float64 at these magnitudes)
RoundUp[p \in Nat \X Nat] == IF p[2] = 0 THEN p[1] ELSE p[1] + 1

\* the float quotient n / d of two lengths, in millionths
DivQ[n \in Int, d \in Int] == Sgn(n) * Sgn(d) * RoundUp[LongDiv[Abs(n), Abs(d)]]

(***************************************************************************)
(* np.sin, np.cos, np.arcsin, np.rad2deg                                   *)
(***************************************************************************)
HALF_PI == 1570796
PI == 2 * HALF_PI
TWO_PI == 2 * PI

\* the denominators (2k)(2k+1) of the sine series, innermost first
SinDenominators == <<210, 156, 110, 72, 42, 20, 6>>

\* Horner evaluation of 1 - r2/6 (1 - r2/20 (1 - r2/42 ( ... ))), from step k on
SinHorner[k \in Nat, r2 \in Int, acc \in Int] ==
    IF k > Len(SinDenominators) THEN acc
    ELSE SinHorner[k + 1, r2, Q - (MulQ[r2, acc] \div SinDenominators[k])]

AtMostOne[v \in Int] == IF v > Q THEN Q ELSE v

\* sine of t in [0, pi/2]: the Taylor polynomial up to t^15
SinTaylor[t \in Int] == AtMostOne[MulQ[t, SinHorner[1, MulQ[t, t], Q]]]

\* the angle in [0, pi/2] with the same sine, up to sign, as t in [0, 2 pi)
FoldAngle(t) ==
    IF t > PI + HALF_PI THEN TWO_PI - t
    ELSE IF t > PI THEN t - PI
    ELSE IF t > HALF_PI THEN PI - t
    ELSE t

\* np.sin(a), a in microradians, result in millionths
Sin(a) ==
    (IF a % TWO_PI > PI THEN -1 ELSE 1) * SinTaylor[FoldAngle(a % TWO_PI)]

\* np.cos(a)
Cos(a) == Sin(a + HALF_PI)

NaN == [nan |-> TRUE, v |-> 0]
Num(v) == [nan |-> FALSE, v |-> v]
Float == [nan : BOOLEAN, v : Int]

\* one halving of the interval p = <<lo, hi>> that holds the angle whose sine
\* is q (the sine increases on [0, pi/2])
Halve[q \in Int, p \in Int \X Int] ==
    IF p[2] - p[1] <= 1 THEN p
    ELSE IF SinTaylor[(p[1] + p[2]) \div 2] <= q
         THEN <<(p[1] + p[2]) \div 2, p[2]>>
         ELSE <<p[1], (p[1] + p[2]) \div 2>>

\* k halvings
Bisect[k \in Nat, q \in Int, p \in Int \X Int] ==
    IF k = 0 THEN p ELSE Bisect[k - 1, q, Halve[q, p]]

\* of the two ends of p, the angle whose sine is nearer to q
Nearer[q \in Int, p \in Int \X Int] ==
    IF Abs(SinTaylor[p[2]] - q) <= Abs(SinTaylor[p[1]] - q) THEN p[2] ELSE p[1]

\* the angle in [0, pi/2] whose sine is nearest to q, by bisection: 21
\* halvings narrow [0, pi/2] to one microradian
AsinSearch[q \in Int] == Nearer[q, Bisect[21, q, <<0, HALF_PI>>]]

\* np.arcsin(q), q in millionths: NaN outside [-1, 1] (numpy warns, does not
\* raise); odd in q
Arcsin[q \in Int] == IF Abs(q) > Q THEN NaN ELSE Num(Sgn(q) * AsinSearch[Abs(q)])

\* float + constant, NaN propagating
AddF[f \in Float, c \in Int] == IF f.nan THEN NaN ELSE Num(f.v + c)

DEG_PER_RAD == 57295780

\* np.rad2deg(f): microradians to microdegrees
rad2deg[f \in Float] == IF f.nan THEN NaN ELSE Num(MulQ[f.v, DEG_PER_RAD])

(***************************************************************************)
(* _compute_gps_conversion_params                                          *)
(***************************************************************************)
LAT_0 == 738168
LON_0 == -1460987
\* pow(re*rp,2)/pow(pow(re*cos(LAT_0),2)+pow(rp*sin(LAT_0),2),3/2) = 6364355.34 m
r_ns == 63643553
\* pow(re,2)/pow(pow(re*cos(LAT_0),2)+pow(rp*sin(LAT_0),2),1/2) = 6387824.78 m
r_ew == 63878248

(***************************************************************************)
(* gps_to_local_coord                                                      *)
(***************************************************************************)
\* x = np.sin(lat - LAT_0) * r_ns
North(lat) == MulQ[Sin(lat - LAT_0), r_ns]
\* East with the reference longitude added instead of subtracted
EastOfSum(lon) == MulQ[MulQ[Sin(lon + LON_0), r_ew], Cos(LAT_0)]

\* y = np.sin(lon - LON_0) * r_ew * np.cos(LAT_0)
East(lon) == MulQ[MulQ[Sin(lon - LON_0), r_ew], Cos(LAT_0)]

\* gps_to_local_coord with the first point taken as the origin of linearization
gps_to_local_coord_from_first(lat, lon) ==
    <<[i \in 1..Len(lat) |-> MulQ[Sin(lat[i] - lat[1]), r_ns]],
      [i \in 1..Len(lon) |-> MulQ[MulQ[Sin(lon[i] - lon[1]), r_ew], Cos(LAT_0)]]>>

\* numpy broadcasting: x is computed from lat alone and y from lon alone,
\* element by element
gps_to_local_coord(lat, lon) ==
    <<[i \in 1..Len(lat) |-> North(lat[i])], [i \in 1..Len(lon) |-> East(lon[i])]>>

(***************************************************************************)
(* local_to_gps_coord                                                      *)
(***************************************************************************)
OFFSET_X == 765
OFFSET_Y == 1083

\* the argument of the arcsine clipped to [-1, 1]
Clip(q) == IF q > Q THEN Q ELSE IF q < -Q THEN -Q ELSE q

\* LatOf with the argument of the arcsine clipped
LatOfClipped(x) == rad2deg[AddF[Arcsin[Clip(DivQ[x - OFFSET_X, r_ns])], LAT_0]]

\* np.rad2deg(np.arcsin((x - 76.5058...)/r_ns) + LAT_0)
LatOf(x) == rad2deg[AddF[Arcsin[DivQ[x - OFFSET_X, r_ns]], LAT_0]]
\* np.rad2deg(np.arcsin((y - 108.3137...)/(r_ew*np.cos(LAT_0))) + LON_0)
LonOf(y) == rad2deg[AddF[Arcsin[DivQ[y - OFFSET_Y, MulQ[r_ew, Cos(LAT_0)]]], LON_0]]

\* the sample coordinates the caller's paths are drawn from, in decimetres:
\* near the origin of linearization, and beyond the radius (arcsine undefined)
XSamples == <<64408, 70000000, 765, 0>>
YSamples == <<48334, 1083, -50000000, 0>>

SeqRange(a) == {a[i] : i \in 1..Len(a)}

\* LatOf and LonOf of the sample coordinates, computed once
LatTable == [v \in SeqRange(XSamples) |-> LatOf(v)]
LonTable == [v \in SeqRange(YSamples) |-> LonOf(v)]

LatCached[v \in Int] == IF v \in DOMAIN LatTable THEN LatTable[v] ELSE LatOf(v)
LonCached[v \in Int] == IF v \in DOMAIN LonTable THEN LonTable[v] ELSE LonOf(v)

\* numpy broadcasting: lat is computed from x alone and lon from y alone,
\* element by element; nothing compares the two lengths
local_to_gps_coord(x, y) ==
    <<[i \in 1..Len(x) |-> LatCached[x[i]]], [i \in 1..Len(y) |-> LonCached[y[i]]]>>

(***************************************************************************)
(* _format_lat_lon                                                         *)
(***************************************************************************)
RECURSIVE PadLeft(_, _)
\* the digits txt padded to w places with leading zeros
PadLeft(txt, w) == IF Len(txt) >= w THEN txt ELSE PadLeft("0" \o txt, w)

RECURSIVE FracText(_, _)
\* the w-digit fraction fp without its trailing zeros, one digit at least
FracText(fp, w) ==
    IF w > 1 /\ fp % 10 = 0 THEN FracText(fp \div 10, w - 1)
    ELSE PadLeft(ToString(fp), w)

\* a magnitude below 1e-4, in scientific notation ("5e-06", "1.2e-05")
SciText(m) ==
    IF m < 10 THEN ToString(m) \o "e-06"
    ELSE IF m % 10 = 0 THEN ToString(m \div 10) \o "e-05"
    ELSE ToString(m \div 10) \o "." \o ToString(m % 10) \o "e-05"

\* "{}".format(f) of a numpy float64: the shortest decimal that reads back
FormatFloat(f) ==
    IF f.nan THEN "nan"
    ELSE LET m == Abs(f.v)
             sign == IF f.v < 0 THEN "-" ELSE ""
         IN  IF m # 0 /\ m < 100 THEN sign \o SciText(m)
             ELSE sign \o ToString(m \div Q) \o "." \o FracText(m % Q, 6)

Min(a, b) == IF a < b THEN a ELSE b

\* Record with the latitude first
RecordLatFirst(la, lo) ==
    "            " \o FormatFloat(la) \o "," \o FormatFloat(lo) \o ",1"

\* "            {},{},1".format(lo, la)
Record(la, lo) == "            " \o FormatFloat(lo) \o "," \o FormatFloat(la) \o ",1"

\* l = [... for la, lo in zip(lat, lon)]: zip stops at the shorter sequence
Records(lat, lon) == [i \in 1..Min(Len(lat), Len(lon)) |-> Record(lat[i], lon[i])]

RECURSIVE JoinLines(_)
\* "\n".join(l)
JoinLines(l) ==
    IF Len(l) = 0 THEN ""
    ELSE IF Len(l) = 1 THEN l[1]
    ELSE l[1] \o "\n" \o JoinLines(Tail(l))

format_lat_lon(lat, lon) == JoinLines(Records(lat, lon))

(***************************************************************************)
(* export_to_kml                                                           *)
(***************************************************************************)
SampleStart == 1
SampleStep == 200

\* the Python slice a[start::step] (start >= 0, step > 0)
Slice(a, start, step) ==
    LET n == IF Len(a) <= start THEN 0 ELSE (Len(a) - start + step - 1) \div step
    IN  [k \in 1..n |-> a[start + (k - 1) * step + 1]]

\* the slice a[0::200]
SubsampleFromFirst(a) == Slice(a, 0, SampleStep)

\* x2[1::200]: sample every 200th point
Subsample(a) == Slice(a, SampleStart, SampleStep)

\* an argument that may be None
None == [some |-> FALSE, a |-> <<>>]
Some(a) == [some |-> TRUE, a |-> a]

\* the text of a path's coordinates tag: local_to_gps_coord, then _format_lat_lon
PathText(x, y) ==
    LET g == local_to_gps_coord(x, y)
    IN  format_lat_lon(g[1], g[2])

\* the estimated path subsampled when asked, as the commented-out lines did
Path1TextSubsampled(x, y, subsample) ==
    IF subsample THEN PathText(Subsample(x), Subsample(y)) ELSE PathText(x, y)

\* the estimated path is never subsampled (the lines that did are commented out)
Path1Text(x, y, subsample) == PathText(x, y)

\* the ground-truth path is subsampled when asked
Path2Text(x, y, subsample) ==
    IF subsample THEN PathText(Subsample(x), Subsample(y)) ELSE PathText(x, y)

\* the file template.kml: missing, not well-formed, or a document seen as its
\* name tags and its coordinates tags in document order
Missing == [kind |-> "missing", names |-> <<>>, coords |-> <<>>]
Garbled == [kind |-> "garbled", names |-> <<>>, coords |-> <<>>]
Kml(names, coords) == [kind |-> "kml", names |-> names, coords |-> coords]

Raise(e) == [status |-> "error", error |-> e, doc |-> Missing]
Return(doc) == [status |-> "ok", error |-> "", doc |-> doc]

\* the body of export_to_kml up to the tree it hands to open/write; px1 and
\* px2 may be None
export_to_kml(tpl, px1, py1, px2, py2, label1, label2, subsample) ==
    IF tpl.kind = "missing" THEN Raise("OSError")
    ELSE IF tpl.kind = "garbled" THEN Raise("XMLSyntaxError")
    ELSE IF Len(tpl.names) < 3 THEN Raise("IndexError")
    ELSE IF Len(tpl.coords) < 2 THEN Raise("IndexError")
    ELSE LET names == [tpl.names EXCEPT ![2] = label1, ![3] = label2]
             c1 == IF px1.some
                   THEN [tpl.coords EXCEPT ![1] = Path1Text(px1.a, py1, subsample)]
                   ELSE tpl.coords
             c2 == IF px2.some
                   THEN [c1 EXCEPT ![2] = Path2Text(px2.a, py2, subsample)]
                   ELSE c1
         IN  Return(Kml(names, c2))

\* a file: whether it exists, and the documents written to it, in order
NoFile == [exists |-> FALSE, content |-> <<>>]

\* a write in append mode ('ab')
WriteFileAppend(old, doc) == [exists |-> TRUE, content |-> old.content \o <<doc>>]

\* with open('output.kml', 'wb') as f: f.write(etree.tostring(root, ...))
WriteFile(old, doc) == [exists |-> TRUE, content |-> <<doc>>]

\* output.kml after the call, had the file been opened before the template is read
CommitOpenFirst(old, r) ==
    IF r.status = "ok" THEN [exists |-> TRUE, content |-> <<r.doc>>]
    ELSE [exists |-> TRUE, content |-> <<>>]

\* output.kml after the call: an exception raised before the with statement
\* leaves the file as it was
Commit(old, r) == IF r.status = "ok" THEN WriteFile(old, r.doc) ELSE old

(***************************************************************************)
(* The export state machine                                                *)
(***************************************************************************)
MaxLen == 2
MaxCalls == 2

Labels == {"EKF", "GT"}

\* templates with n name tags and c coordinates tags
TemplateNames(n) == [i \in 1..n |-> "name " \o ToString(i)]
TemplateCoords(c) == [i \in 1..c |-> "0,0," \o ToString(i)]
TemplateShapes == {<<2, 2>>, <<3, 1>>, <<3, 2>>, <<4, 3>>}
Templates ==
    {Missing, Garbled}
        \cup {Kml(TemplateNames(t[1]), TemplateCoords(t[2])) : t \in TemplateShapes}

\* an array of n samples, starting at sample s
Cycle(samples, n, s) == [i \in 1..n |-> samples[((s + i - 2) % Len(samples)) + 1]]

\* an output.kml left by an earlier run
StaleFile == WriteFile(NoFile, Kml(<<"old">>, <<"old">>))

NoCall == [called |-> FALSE, pass1 |-> FALSE, pass2 |-> FALSE, label1 |-> "",
           label2 |-> "", subsample |-> FALSE, status |-> "", error |-> ""]

\* no helper call is under way
NoArg == [op |-> "none"]
NoRet == [state |-> "none", val |-> <<>>]

Init ==
    /\ template \in Templates
    /\ output \in {NoFile, StaleFile}
    /\ \E a \in 0..MaxLen, b \in 0..MaxLen, s \in 1..2 :
          /\ x1 = Cycle(XSamples, a, s)
          /\ y1 = Cycle(YSamples, b, s)
          /\ x2 = Cycle(XSamples, b, s + 1)
          /\ y2 = Cycle(YSamples, a, s + 1)
    /\ last = NoCall
    /\ calls = 0
    /\ arg = NoArg
    /\ ret = NoRet

\* one call export_to_kml(x1, y1, x2, y2, label1, label2, subsample), a path
\* being passed or None
Export ==
    /\ calls < MaxCalls
    /\ \E label1 \in Labels, label2 \in Labels, subsample \in BOOLEAN,
          pass1 \in BOOLEAN, pass2 \in BOOLEAN :
        LET r == export_to_kml(template, IF pass1 THEN Some(x1) ELSE None, y1,
                               IF pass2 THEN Some(x2) ELSE None, y2,
                               label1, label2, subsample)
        IN  /\ output' = Commit(output, r)
            /\ last' = [called |-> TRUE, pass1 |-> pass1, pass2 |-> pass2,
                        label1 |-> label1, label2 |-> label2,
                        subsample |-> subsample, status |-> r.status,
                        error |-> r.error]
    /\ calls' = calls + 1
    /\ UNCHANGED <<template, x1, y1, x2, y2, arg, ret>>

Next == Export

Spec == Init /\ [][Next]_vars

(***************************************************************************)
(* The helpers called on their own: the arguments are drawn at the start,  *)
(* one action applies the helper                                           *)
(***************************************************************************)
MaxBlocks == 5
GridN == 12

\* latitudes in [-pi/2, pi/2]: around LAT_0, the poles, and a grid
LatSamples ==
    <<LAT_0, LAT_0 + 1, LAT_0 - 1, LAT_0 + 1000, LAT_0 + 500000, HALF_PI,
      -HALF_PI, 0>> \o [k \in 1..GridN |-> -HALF_PI + k * (PI \div (GridN + 1))]

\* longitudes in [-pi, pi]: around LON_0, either side of LON_0 + pi, 3 rad,
\* the ends, and a grid
LonSamples ==
    <<LON_0, LON_0 + 1, LON_0 - 1, LON_0 + 1000, LON_0 + PI - 1000,
      LON_0 + PI + 1000, 3000000, PI, -PI, 0>>
        \o [k \in 1..GridN |-> -PI + k * (TWO_PI \div (GridN + 1))]

\* degrees to format: the literal case 1.0, 2.0, 3.0, 4.0 first
DegSamples ==
    <<Num(1000000), Num(2000000), Num(3000000), Num(4000000), NaN,
      Num(-83708389), Num(42293911), Num(0), Num(50), Num(-1200000)>>

\* a long path: n points, one every stride decimetres
Ramp(base, stride, n) == [i \in 1..n |-> base + stride * (i - 1)]

ForwardArgs ==
    {[op |-> "gps_to_local_coord", lat |-> Cycle(LatSamples, n, s),
      lon |-> Cycle(LonSamples, n, s)] :
        n \in 0..MaxLen, s \in 1..Len(LonSamples)}

FormatArgs ==
    {[op |-> "_format_lat_lon", lat |-> Cycle(DegSamples, n, s),
      lon |-> Cycle(DegSamples, m, s + 2)] :
        n \in 0..MaxLen, m \in 0..MaxLen, s \in 1..Len(DegSamples)}

\* path lengths around the multiples of the sampling step
LongLengths == {k * SampleStep + d : k \in 0..MaxBlocks, d \in 0..2}

GroundTruthArgs ==
    {[op |-> "ground_truth", x |-> Ramp(OFFSET_X, 100, n),
      y |-> Ramp(OFFSET_Y, 70, n), subsample |-> TRUE] : n \in LongLengths}
        \cup {[op |-> "ground_truth", x |-> Ramp(OFFSET_X, 100, n),
               y |-> Ramp(OFFSET_Y, 70, n), subsample |-> FALSE] : n \in 0..MaxLen}

InitFn ==
    /\ template = Missing
    /\ output = NoFile
    /\ x1 = <<>> /\ y1 = <<>> /\ x2 = <<>> /\ y2 = <<>>
    /\ last = NoCall
    /\ calls = 0
    /\ \/ arg \in ForwardArgs
       \/ arg \in FormatArgs
       \/ arg \in GroundTruthArgs
    /\ ret = NoRet

Returned(v) == [state |-> "returned", val |-> v]

Frame == UNCHANGED <<template, output, x1, y1, x2, y2, last, calls, arg>>

\* gps_to_local_coord(lat, lon)
CallForward ==
    /\ arg.op = "gps_to_local_coord" /\ ret.state = "none"
    /\ ret' = Returned(gps_to_local_coord(arg.lat, arg.lon))
    /\ Frame

\* _format_lat_lon(lat, lon)
CallFormat ==
    /\ arg.op = "_format_lat_lon" /\ ret.state = "none"
    /\ ret' = Returned(format_lat_lon(arg.lat, arg.lon))
    /\ Frame

\* the ground-truth branch of export_to_kml: the text of the second coordinates tag
CallGroundTruth ==
    /\ arg.op = "ground_truth" /\ ret.state = "none"
    /\ ret' = Returned(Path2Text(arg.x, arg.y, arg.subsample))
    /\ Frame

NextFn == CallForward \/ CallFormat \/ CallGroundTruth

SpecFn == InitFn /\ [][NextFn]_vars
(***************************************************************************)
(* Reading a result back                                                   *)
(***************************************************************************)
\* the place of the first line break of txt at or after place i, 0 if none
FirstBreak[txt \in STRING, i \in Nat] ==
    IF i > Len(txt) THEN 0
    ELSE IF SubSeq(txt, i, i) = "\n" THEN i
    ELSE FirstBreak[txt, i + 1]

\* the lines of a text; the empty text has none
Lines[txt \in STRING] ==
    IF txt = "" THEN <<>>
    ELSE LET k == FirstBreak[txt, 1]
         IN  IF k = 0 THEN <<txt>>
             ELSE <<SubSeq(txt, 1, k - 1)>> \o Lines[SubSeq(txt, k + 1, Len(txt))]

\* the template has the three name tags and two coordinates tags the code indexes
WellFormed ==
    /\ template.kind = "kml"
    /\ Len(template.names) >= 3
    /\ Len(template.coords) >= 2

\* the records of the points (x[i], y[i]), a point being a pair
PointRecords(x, y) ==
    [i \in 1..Min(Len(x), Len(y)) |->
        "            " \o FormatFloat(LonCached[y[i]]) \o ","
            \o FormatFloat(LatCached[x[i]]) \o ",1"]

\* the elements of a at the indices 1, 201, 401, ... (counted from 0)
EveryTwoHundredth(a) ==
    [k \in 1..((Len(a) + 198) \div 200) |-> a[200 * (k - 1) + 2]]

\* a without its element i
Remove(a, i) == [j \in 1..(Len(a) - 1) |-> IF j < i THEN a[j] ELSE a[j + 1]]

(***************************************************************************)
(* Claims about export_to_kml (specification Spec)                         *)
(***************************************************************************)
\* C6, as the specification states it: a call of export_to_kml that passes a
\* path whose x and y have different lengths fails with an error instead of
\* producing output.
C6_MismatchedLengthsRejected ==
    (/\ last.called
     /\ \/ last.pass1 /\ Len(x1) # Len(y1)
        \/ last.pass2 /\ Len(x2) # Len(y2))
        => last.status = "error"

\* C7: when the template cannot be read, or has fewer than 3 name tags or
\* fewer than 2 coordinates tags, every call of export_to_kml ends with an
\* error raised to the caller and leaves output.kml as it was: not created,
\* not modified.
C7_TemplateErrorIsFatal ==
    [][(~WellFormed) => (last'.status = "error" /\ output' = output)]_vars

\* an existing output.kml survived a call that failed on a template with too
\* few name tags
C7_Witness ==
    /\ last.called
    /\ last.status = "error"
    /\ template.kind = "kml"
    /\ Len(template.names) < 3
    /\ output = StaleFile

\* C8: after every successful call output.kml holds exactly one document, the
\* one made from the template and the arguments of that call; nothing of an
\* earlier call or of an earlier file remains, and no call modifies the
\* template.
C8_LastWriterWins ==
    [][/\ template' = template
       /\ last'.status = "ok" =>
            output' = [exists |-> TRUE,
                       content |-> <<export_to_kml(template,
                            IF last'.pass1 THEN Some(x1) ELSE None, y1,
                            IF last'.pass2 THEN Some(x2) ELSE None, y2,
                            last'.label1, last'.label2, last'.subsample).doc>>]]_vars

\* a second successful call has written over the first
C8_Witness ==
    /\ calls >= 2
    /\ last.status = "ok"
    /\ Len(output.content) = 1
    /\ output.content[1].names[2] = last.label1

\* the document a successful call wrote holds, for each path, what C10 says
SlotsAsPassed ==
    last.status = "ok" =>
        LET doc == output.content[1]
        IN  /\ doc.names[2] = last.label1
            /\ doc.names[3] = last.label2
            /\ IF last.pass1
               THEN Lines[doc.coords[1]] = PointRecords(x1, y1)
               ELSE doc.coords[1] = template.coords[1]
            /\ IF last.pass2
               THEN Lines[doc.coords[2]] =
                        IF last.subsample
                        THEN PointRecords(EveryTwoHundredth(x2), EveryTwoHundredth(y2))
                        ELSE PointRecords(x2, y2)
               ELSE doc.coords[2] = template.coords[2]

\* C10: the first coordinates tag receives one record per point of (x1, y1),
\* in order, whatever subsample is; the second receives the points of
\* (x2, y2), every 200th from index 1 if and only if subsample is true; a path
\* passed as None leaves its tag with the template's text while both name
\* tags are set to label1 and label2; the caller's sequences are not changed.
C10_DecimationAndSlotScope ==
    [][/\ <<x1, y1, x2, y2>>' = <<x1, y1, x2, y2>>
       /\ SlotsAsPassed']_vars

\* a call with subsample true that passed a two-point estimated path and no
\* ground truth: two records in the first tag, the template's text in the second
C10_Witness ==
    /\ last.status = "ok"
    /\ last.subsample
    /\ last.pass1 /\ ~last.pass2
    /\ Len(x1) = 2 /\ Len(y1) = 2
    /\ Len(Lines[output.content[1].coords[1]]) = 2
    /\ output.content[1].coords[2] = template.coords[2]

\* the arcsine of local_to_gps_coord is taken outside [-1, 1]
OutOfRangeX(v) == Abs(v - OFFSET_X) > r_ns
OutOfRangeY(v) == Abs(v - OFFSET_Y) > MulQ[r_ew, Cos(LAT_0)]

\* local_to_gps_coord(x, y) returns NaN where the arcsine is undefined, and
\* for the other elements what it returns without that element
NaNWhereOutOfRange(x, y) ==
    LET g == local_to_gps_coord(x, y)
    IN  /\ Len(g[1]) = Len(x)
        /\ Len(g[2]) = Len(y)
        /\ \A i \in 1..Len(x) :
              /\ g[1][i].nan <=> OutOfRangeX(x[i])
              /\ OutOfRangeX(x[i]) =>
                    local_to_gps_coord(Remove(x, i), y)[1] = Remove(g[1], i)
        /\ \A i \in 1..Len(y) :
              /\ g[2][i].nan <=> OutOfRangeY(y[i])
              /\ OutOfRangeY(y[i]) =>
                    local_to_gps_coord(x, Remove(y, i))[2] = Remove(g[2], i)

\* the text of a coordinates tag has, for every point of (x, y) with a
\* coordinate out of range, a record with nan in that coordinate's place
RecordsWithNaN(x, y, txt) ==
    \A i \in 1..Min(Len(x), Len(y)) :
        (OutOfRangeX(x[i]) \/ OutOfRangeY(y[i])) =>
            /\ i <= Len(Lines[txt])
            /\ Lines[txt][i] =
                  "            "
                    \o (IF OutOfRangeY(y[i]) THEN "nan" ELSE FormatFloat(LonCached[y[i]]))
                    \o ","
                    \o (IF OutOfRangeX(x[i]) THEN "nan" ELSE FormatFloat(LatCached[x[i]]))
                    \o ",1"

\* C9: local_to_gps_coord does not guard the arcsine: an element whose
\* argument is outside [-1, 1] comes out as NaN, the other elements come out
\* as they do without it, and a call of export_to_kml on a readable template
\* still succeeds and writes a record, with nan, for each such point it
\* converts.
C9_OutOfRangeGivesNaN ==
    /\ NaNWhereOutOfRange(x1, y1)
    /\ NaNWhereOutOfRange(x2, y2)
    /\ (last.called /\ WellFormed) =>
          /\ last.status = "ok"
          /\ last.pass1 => RecordsWithNaN(x1, y1, output.content[1].coords[1])
          /\ last.pass2 =>
                IF last.subsample
                THEN RecordsWithNaN(Subsample(x2), Subsample(y2),
                                    output.content[1].coords[2])
                ELSE RecordsWithNaN(x2, y2, output.content[1].coords[2])

\* a successful call wrote a record with nan for an estimated point 7000 km north
C9_Witness ==
    /\ last.status = "ok"
    /\ last.pass1
    /\ \E i \in 1..Min(Len(x1), Len(y1)) :
          /\ OutOfRangeX(x1[i])
          /\ ~OutOfRangeY(y1[i])
          /\ Lines[output.content[1].coords[1]][i] =
                "            " \o FormatFloat(LonCached[y1[i]]) \o ",nan,1"

(***************************************************************************)
(* Claims about the helpers (specification SpecFn)                         *)
(***************************************************************************)
\* the helper op has returned
Done(op) == arg.op = op /\ ret.state = "returned"

\* the number of characters of the records l joined by single line breaks
JoinedLen(l) ==
    LET total[k \in 0..Len(l)] == IF k = 0 THEN 0 ELSE total[k - 1] + Len(l[k])
    IN  total[Len(l)] + (IF Len(l) = 0 THEN 0 ELSE Len(l) - 1)

\* C1: with subsample true the ground-truth path is reduced, before the
\* conversion, to its elements at the indices 1, 201, 401, ... in order: the
\* second coordinates tag holds the records of exactly these points,
\* ceil((n-1)/200) of them for n points (none when n <= 1), and for 1000
\* points those at 1, 201, 401, 601, 801.
C1_DecimationIndices ==
    (Done("ground_truth") /\ arg.subsample) =>
        LET n == Len(arg.x)
            count == IF n <= 1 THEN 0 ELSE (n - 1 + 199) \div 200
            kept == [k \in 1..count |-> 1 + 200 * (k - 1)]
            recs == Lines[ret.val]
        IN  /\ Len(recs) = count
            /\ \A k \in 1..count :
                  recs[k] = "            " \o FormatFloat(LonOf(arg.y[kept[k] + 1]))
                                \o "," \o FormatFloat(LatOf(arg.x[kept[k] + 1])) \o ",1"
            /\ n = 1000 => kept = <<1, 201, 401, 601, 801>>

\* a path of 1000 points came out as 5 records
C1_Witness ==
    /\ Done("ground_truth")
    /\ arg.subsample
    /\ Len(arg.x) = 1000
    /\ Len(Lines[ret.val]) = 5

\* the literal case of the specification: lat = [1.0, 2.0], lon = [3.0, 4.0]
LiteralCase ==
    /\ arg.lat = <<Num(1000000), Num(2000000)>>
    /\ arg.lon = <<Num(3000000), Num(4000000)>>

\* C2, as the specification states it: for lat and lon of equal length N the
\* result is N records joined by single line breaks, in input order, record i
\* being exactly "<lon_i>,<lat_i>,1" with no other character;
\* lat = [1.0, 2.0], lon = [3.0, 4.0] gives "3.0,1.0,1\n4.0,2.0,1".
C2_BareRecords ==
    (Done("_format_lat_lon") /\ Len(arg.lat) = Len(arg.lon)) =>
        /\ Lines[ret.val] =
              [i \in 1..Len(arg.lat) |->
                  FormatFloat(arg.lon[i]) \o "," \o FormatFloat(arg.lat[i]) \o ",1"]
        /\ Len(ret.val) = JoinedLen(Lines[ret.val])
        /\ LiteralCase => ret.val = "3.0,1.0,1\n4.0,2.0,1"

\* C2, as the code has it: for lat and lon of equal length N the result is N
\* records joined by single line breaks, in input order, record i being twelve
\* spaces followed by "<lon_i>,<lat_i>,1"; lat = [1.0, 2.0], lon = [3.0, 4.0]
\* gives "            3.0,1.0,1\n            4.0,2.0,1".
C2_IndentedRecords ==
    (Done("_format_lat_lon") /\ Len(arg.lat) = Len(arg.lon)) =>
        /\ Lines[ret.val] =
              [i \in 1..Len(arg.lat) |->
                  "            " \o FormatFloat(arg.lon[i]) \o ","
                      \o FormatFloat(arg.lat[i]) \o ",1"]
        /\ Len(ret.val) = JoinedLen(Lines[ret.val])
        /\ LiteralCase => ret.val = "            3.0,1.0,1\n            4.0,2.0,1"

\* the literal case has been formatted
C2_Witness ==
    /\ Done("_format_lat_lon")
    /\ LiteralCase
    /\ Len(Lines[ret.val]) = 2

\* C4, as the specification states it: over latitudes in [-pi/2, pi/2] and
\* longitudes in [-pi, pi], every element with lat > LAT_0 has x > 0 and every
\* element with lon > LON_0 has y > 0.
C4_SignOverFullRange ==
    Done("gps_to_local_coord") =>
        /\ \A i \in 1..Len(arg.lat) : arg.lat[i] > LAT_0 => ret.val[1][i] > 0
        /\ \A i \in 1..Len(arg.lon) : arg.lon[i] > LON_0 => ret.val[2][i] > 0

\* C4, as the code has it: every element with lat > LAT_0 has x > 0, and every
\* element whose longitude exceeds LON_0 by less than pi has y > 0.
C4_SignWithinHalfTurn ==
    Done("gps_to_local_coord") =>
        /\ \A i \in 1..Len(arg.lat) : arg.lat[i] > LAT_0 => ret.val[1][i] > 0
        /\ \A i \in 1..Len(arg.lon) :
              (arg.lon[i] > LON_0 /\ arg.lon[i] - LON_0 < PI) => ret.val[2][i] > 0

\* a point just north and just east of the reference has been converted
C4_Witness ==
    /\ Done("gps_to_local_coord")
    /\ \E i \in 1..Len(arg.lat) :
          /\ arg.lat[i] = LAT_0 + 1
          /\ arg.lon[i] = LON_0 + 1
          /\ ret.val[1][i] > 0
          /\ ret.val[2][i] > 0

\* the orderings of n elements
Orderings(n) == {p \in [1..n -> 1..n] : \A i, j \in 1..n : p[i] = p[j] => i = j}

\* the sequence a in the ordering p
Reordered(a, p) == [i \in 1..Len(a) |-> a[p[i]]]

\* C5: for lat and lon of length N the outputs x and y have length N; element
\* i is what the function returns for the single point (lat[i], lon[i]);
\* reordering lat and lon alike reorders x and y alike; changing another
\* element leaves element i as it was.
C5_Elementwise ==
    Done("gps_to_local_coord") =>
        LET N == Len(arg.lat)
            x == ret.val[1]
            y == ret.val[2]
        IN  /\ Len(x) = N
            /\ Len(y) = N
            /\ \A i \in 1..N :
                  gps_to_local_coord(<<arg.lat[i]>>, <<arg.lon[i]>>) = <<<<x[i]>>, <<y[i]>>>>
            /\ \A p \in Orderings(N) :
                  gps_to_local_coord(Reordered(arg.lat, p), Reordered(arg.lon, p))
                      = <<Reordered(x, p), Reordered(y, p)>>
            /\ \A i \in 1..N, j \in 1..N :
                  i # j =>
                      LET other == gps_to_local_coord([arg.lat EXCEPT ![j] = 0],
                                                      [arg.lon EXCEPT ![j] = 0])
                      IN  other[1][i] = x[i] /\ other[2][i] = y[i]

\* two different points have been converted to two different places
C5_Witness ==
    /\ Done("gps_to_local_coord")
    /\ Len(arg.lat) = 2
    /\ arg.lat[1] # arg.lat[2]
    /\ ret.val[1][1] # ret.val[1][2]
    /\ ret.val[2][1] # ret.val[2][2]
====
